---- MODULE Spec2Model ----
(***************************************************************************)
(* Model of the live-update dispatch subsystem of spark_api (src/main.py): *)
(* the module-level registry `subscriptions`, the connection handler       *)
(* websocket_endpoint, the notification callback handle_device_data_update *)
(* and the two store queries it relies on.                                 *)
(*                                                                         *)
(* Every action is one atomic segment of a coroutine, i.e. the code that   *)
(* runs between two awaits on the single asyncio event loop.  A store      *)
(* query is evaluated by the database at some point while the coroutine is *)
(* suspended in it, so the evaluation of the query and the resumption of   *)
(* the coroutine are separate steps.                                       *)
(***************************************************************************)
EXTENDS Naturals, Sequences, FiniteSets

\* ------------------------------------------------------------------ bounds
NumConns == 2
NumTasks == 2
MaxInserts == 2
MaxTime == 2
\* connections accepted + notifications received + rows inserted + losses of
\* the listening connection, in one run
MaxEvents == 5

\* rows inserted in a run that starts with a large table
BulkExtra == 2

\* LIMIT of the snapshot query, LIMIT of the latest-reading query
SnapshotLimit == 800
LatestLimit == 1

Devices == {"d1", "d2"}
Conns == 1..NumConns
Tasks == 1..NumTasks
Times == 1..MaxTime

NoConn == 0
\* sender tag of a message: the connection's own handler, or the number of
\* the handle_device_data_update invocation
Endpoint == NoConn
NoDevice == "none"

VARIABLES
    listener,       \* the add_listener task of lifespan and its connection:
                    \* "pending", "listening", "failed" or "broken"
    device_data,    \* the table device_data, rows in insertion order
    subscriptions,  \* dict device_id -> list of websockets (keys: a subset of Devices)
    wsPc,           \* position of websocket_endpoint for each connection
    wsDev,          \* its device_id argument
    wsData,         \* its local all_device_data
    wsExit,         \* the exception that left the try block of the handler
    cleanups,       \* number of times lines 90-92 ran for the connection
    sent,           \* per connection, the messages put on the wire, in order
    hPc,            \* position of each handle_device_data_update invocation
    hDev,           \* its device_id (payload)
    hData,          \* its local data
    hIdx,           \* index of its list iterator (elements already yielded)
    hCur,           \* the websocket it is sending to
    hOrphan,        \* its iterator runs over a list that was deleted from the dict
    hErr,           \* the exception that left the callback, or "none"
    hAtStart        \* the list as it was when the for loop started

wsVars == <<wsPc, wsDev, wsData, wsExit, cleanups>>
hVars == <<hPc, hDev, hData, hIdx, hCur, hOrphan, hErr, hAtStart>>
vars == <<listener, device_data, subscriptions, wsVars, sent, hVars>>

\* ------------------------------------------------------------ pure helpers
Range(s) == {s[i] : i \in DOMAIN s}

\* list.remove(x): drops the first occurrence of x (x is in s)
RemoveFirst(s, x) ==
    LET i == CHOOSE j \in DOMAIN s : s[j] = x /\ \A k \in 1..(j - 1) : s[k] # x
    IN  [k \in 1..(Len(s) - 1) |-> IF k < i THEN s[k] ELSE s[k + 1]]

\* datetime.isoformat(): a text value, no longer a datetime
isoformat(t) == [iso |-> t]

\* the in-place conversion loops of lines 76-79 and 106-109
ToWire(data) ==
    [i \in DOMAIN data |-> [data[i] EXCEPT !.recorded_at = isoformat(@)]]

RowsOf(device_id, table) == {r \in Range(table) : r.device_id = device_id}

\* every order of the rows G (rows of one recorded_at: the database returns
\* them in any order)
RECURSIVE AnyOrder(_)
AnyOrder(G) ==
    IF G = {} THEN {<<>>}
    ELSE UNION {{<<r>> \o s : s \in AnyOrder(G \ {r})} : r \in G}

\* a recorded_at of S with at most half of the rows above it and at most
\* half below (the sort splits S there)
Pivot(S) ==
    CHOOSE p \in {r.recorded_at : r \in S} :
        /\ 2 * Cardinality({r \in S : r.recorded_at > p}) <= Cardinality(S)
        /\ 2 * Cardinality({r \in S : r.recorded_at < p}) <= Cardinality(S)

\* ORDER BY recorded_at DESC over the rows S: every order the database may
\* return
RECURSIVE OrderDesc(_)
OrderDesc(S) ==
    IF S = {} THEN {<<>>}
    ELSE LET p == Pivot(S)
         IN  {a \o b \o c :
                a \in OrderDesc({r \in S : r.recorded_at > p}),
                b \in AnyOrder({r \in S : r.recorded_at = p}),
                c \in OrderDesc({r \in S : r.recorded_at < p})}

\* ORDER BY recorded_at DESC LIMIT k over the rows S: the first k rows of
\* the ordered result, all of them when there are fewer
OrderDescLimit(S, k) ==
    {SubSeq(s, 1, IF Len(s) < k THEN Len(s) ELSE k) : s \in OrderDesc(S)}

\* line 119 without LIMIT 800
fetch_device_data_unlimited(device_id, table) ==
    OrderDescLimit(RowsOf(device_id, table), Len(table))

fetch_device_data(device_id, table) ==
    OrderDescLimit(RowsOf(device_id, table), SnapshotLimit)

\* line 127 with ORDER BY recorded_at ASC: the oldest reading
fetch_oldest_device_data(device_id, table) ==
    LET S == RowsOf(device_id, table)
    IN  IF S = {} THEN {<<>>}
        ELSE {<<r>> : r \in {x \in S : \A q \in S : x.recorded_at <= q.recorded_at}}

fetch_latest_device_data(device_id, table) ==
    OrderDescLimit(RowsOf(device_id, table), LatestLimit)

\* line 66 as [websocket], followed by line 68: a new list holds it twice
RegisterInitWithSelf(subs, device_id, websocket) ==
    LET base == IF device_id \in DOMAIN subs THEN subs[device_id] ELSE <<websocket>>
    IN  [k \in DOMAIN subs \cup {device_id} |->
            IF k = device_id THEN Append(base, websocket) ELSE subs[k]]

\* lines 65-66 without the test: the list is replaced on every connect
RegisterOverwrites(subs, device_id, websocket) ==
    [k \in DOMAIN subs \cup {device_id} |->
        IF k = device_id THEN <<websocket>> ELSE subs[k]]

\* line 68 as insert(0, websocket): the new connection goes to the front
RegisterAtFront(subs, device_id, websocket) ==
    LET base == IF device_id \in DOMAIN subs THEN subs[device_id] ELSE <<>>
    IN  [k \in DOMAIN subs \cup {device_id} |->
            IF k = device_id THEN <<websocket>> \o base ELSE subs[k]]

\* lines 65-68
Register(subs, device_id, websocket) ==
    LET base == IF device_id \in DOMAIN subs THEN subs[device_id] ELSE <<>>
    IN  [k \in DOMAIN subs \cup {device_id} |->
            IF k = device_id THEN Append(base, websocket) ELSE subs[k]]

\* lines 90-91 without line 92: the emptied list stays in the dict
UnregisterKeepsEmpty(subs, device_id, websocket) ==
    [subs EXCEPT ![device_id] = RemoveFirst(subs[device_id], websocket)]

\* lines 90-92 (device_id is a key and websocket is in its list)
Unregister(subs, device_id, websocket) ==
    LET rest == RemoveFirst(subs[device_id], websocket)
    IN  IF rest = <<>>
        THEN [k \in DOMAIN subs \ {device_id} |-> subs[k]]
        ELSE [subs EXCEPT ![device_id] = rest]

\* the loop walks the connections of every device: the list of the
\* notified device, then the others
IterListEveryDevice(t) ==
    LET RECURSIVE Cat(_)
        Cat(D) == IF D = {} THEN <<>>
                  ELSE LET d == CHOOSE x \in D : TRUE
                       IN  subscriptions[d] \o Cat(D \ {d})
    IN  (IF hDev[t] \in DOMAIN subscriptions THEN subscriptions[hDev[t]] ELSE <<>>)
            \o Cat(DOMAIN subscriptions \ {hDev[t]})

\* the loop walks a copy of the list taken when it started
IterListCopy(t) == hAtStart[t]

\* the list the iterator of invocation t walks: the live list object of the
\* dict, or the (emptied) list object that was deleted from the dict
IterList(t) ==
    IF hOrphan[t] THEN <<>> ELSE subscriptions[hDev[t]]

Message(device_id, data) == [device_id |-> device_id, data |-> data]

\* -------------------------------------------------------------------- Init
\* the process after startup: lifespan has yielded, nobody has connected
Startup ==
    /\ listener = "pending"
    /\ subscriptions = <<>>
    /\ wsPc = [c \in Conns |-> "idle"]
    /\ wsDev = [c \in Conns |-> NoDevice]
    /\ wsData = [c \in Conns |-> <<>>]
    /\ wsExit = [c \in Conns |-> "none"]
    /\ cleanups = [c \in Conns |-> 0]
    /\ sent = [c \in Conns |-> <<>>]
    /\ hPc = [t \in Tasks |-> "idle"]
    /\ hDev = [t \in Tasks |-> NoDevice]
    /\ hData = [t \in Tasks |-> <<>>]
    /\ hIdx = [t \in Tasks |-> 0]
    /\ hCur = [t \in Tasks |-> NoConn]
    /\ hOrphan = [t \in Tasks |-> FALSE]
    /\ hErr = [t \in Tasks |-> "none"]
    /\ hAtStart = [t \in Tasks |-> <<>>]

Init ==
    /\ device_data = <<>>
    /\ Startup

\* the external events so far: connections accepted, notifications received,
\* rows inserted, the listener failed or lost
Events ==
    Cardinality({c \in Conns : wsPc[c] # "idle"})
    + Cardinality({t \in Tasks : hPc[t] # "idle"})
    + Len(device_data)
    + (IF listener \in {"failed", "broken"} THEN 1 ELSE 0)

\* --------------------------------------------------------------- lifespan
\* lines 38-40 have run when the application serves: the connection is open,
\* add_listener is a task that has not run yet (line 39 only creates it).
\* The task completes: the callback is registered on the connection
ListenerStarts ==
    /\ listener = "pending"
    /\ listener' = "listening"
    /\ UNCHANGED <<device_data, subscriptions, wsVars, sent, hVars>>

\* add_listener raises (LISTEN fails, the connection is lost): the exception
\* stays in the task until shutdown (line 48), nothing retries
ListenerFails ==
    /\ listener = "pending"
    /\ Events < MaxEvents
    /\ listener' = "failed"
    /\ UNCHANGED <<device_data, subscriptions, wsVars, sent, hVars>>

\* the connection of lines 38-39 terminates (the server closes it, the
\* network drops): its listener is gone, and nothing in lifespan or elsewhere
\* opens another one; no notification is received from then on
ListenerBreaks ==
    /\ listener = "listening"
    /\ Events < MaxEvents
    /\ listener' = "broken"
    /\ UNCHANGED <<device_data, subscriptions, wsVars, sent, hVars>>

\* ------------------------------------------------------------- post_data
\* the INSERT of post_data commits
Commit(d, ts) ==
    /\ device_data' = Append(device_data,
            [id |-> Len(device_data) + 1, device_id |-> d, recorded_at |-> ts])
    /\ UNCHANGED <<listener, subscriptions, wsVars, sent, hVars>>

Insert(d, ts) ==
    /\ Len(device_data) < MaxInserts
    /\ Events < MaxEvents
    /\ Commit(d, ts)

\* ---------------------------------------------------- websocket_endpoint
\* lines 62-72: accept, register, suspend in the snapshot fetch.
\* Connections are numbered in the order they are accepted.
Accept(c, d) ==
    /\ wsPc[c] = "idle"
    /\ \A b \in Conns : b < c => wsPc[b] # "idle"
    /\ subscriptions' = Register(subscriptions, d, c)
    /\ wsPc' = [wsPc EXCEPT ![c] = "fetch"]
    /\ wsDev' = [wsDev EXCEPT ![c] = d]
    /\ UNCHANGED <<listener, device_data, wsData, wsExit, cleanups, sent, hVars>>

Connect(c, d) ==
    /\ Events < MaxEvents
    /\ Accept(c, d)

\* line 73: the database evaluates the snapshot query; lines 76-79
FetchSnapshot(c) ==
    /\ wsPc[c] = "fetch"
    /\ \E rows \in fetch_device_data(wsDev[c], device_data) :
            wsData' = [wsData EXCEPT ![c] = ToWire(rows)]
    /\ wsPc' = [wsPc EXCEPT ![c] = "send"]
    /\ UNCHANGED <<listener, device_data, subscriptions, wsDev, wsExit, cleanups, sent, hVars>>

\* line 82: the snapshot is put on the wire; the handler enters the receive loop
SendSnapshot(c) ==
    /\ wsPc[c] = "send"
    /\ sent' = [sent EXCEPT ![c] =
            Append(@, [by |-> Endpoint, msg |-> Message(wsDev[c], wsData[c])])]
    /\ wsPc' = [wsPc EXCEPT ![c] = "receive"]
    /\ UNCHANGED <<listener, device_data, subscriptions, wsDev, wsData, wsExit, cleanups, hVars>>

\* line 86: a text message arrives and is dropped; the loop goes on
ReceiveText(c) ==
    /\ wsPc[c] = "receive"
    /\ UNCHANGED vars

\* lines 88-95: the try block is left by an exception.
\*   "disconnect"  WebSocketDisconnect: lines 90-92, the coroutine returns
\*   "wsexception" WebSocketException: line 94, no removal, and the
\*                 coroutine suspends in the close of line 95
\*   "error"       any other exception: no handler, it leaves the coroutine
\* The locals of a coroutine that is over are gone.
Leave(c, how) ==
    /\ wsPc' = [wsPc EXCEPT ![c] = IF how = "wsexception" THEN "closing" ELSE "done"]
    /\ wsData' = [wsData EXCEPT ![c] = IF how = "wsexception" THEN @ ELSE <<>>]
    /\ IF how = "disconnect"
       THEN IF wsDev[c] \notin DOMAIN subscriptions
            THEN /\ wsExit' = [wsExit EXCEPT ![c] = "KeyError"]
                 /\ UNCHANGED <<subscriptions, cleanups, hOrphan>>
            ELSE IF c \notin Range(subscriptions[wsDev[c]])
            THEN /\ wsExit' = [wsExit EXCEPT ![c] = "ValueError"]
                 /\ UNCHANGED <<subscriptions, cleanups, hOrphan>>
            ELSE /\ subscriptions' = Unregister(subscriptions, wsDev[c], c)
                 /\ cleanups' = [cleanups EXCEPT ![c] = @ + 1]
                 /\ wsExit' = [wsExit EXCEPT ![c] = how]
                 /\ hOrphan' = [t \in Tasks |->
                        \/ hOrphan[t]
                        \/ /\ hPc[t] = "sending"
                           /\ hDev[t] = wsDev[c]
                           /\ wsDev[c] \notin DOMAIN subscriptions']
       ELSE /\ wsExit' = [wsExit EXCEPT ![c] = how]
            /\ UNCHANGED <<subscriptions, cleanups, hOrphan>>
    /\ UNCHANGED <<listener, device_data, wsDev, sent,
                   hPc, hDev, hData, hIdx, hCur, hErr, hAtStart>>

\* lines 72-73 raise (the store query fails)
FetchFails(c) ==
    /\ wsPc[c] = "fetch"
    /\ Leave(c, "error")

\* line 82 raises
SendSnapshotFails(c, how) ==
    /\ wsPc[c] = "send"
    /\ Leave(c, how)

\* line 86 raises
ReceiveFails(c, how) ==
    /\ wsPc[c] = "receive"
    /\ Leave(c, how)

\* line 95: the close completes and the coroutine returns
CloseDone(c) ==
    /\ wsPc[c] = "closing"
    /\ wsPc' = [wsPc EXCEPT ![c] = "done"]
    /\ wsData' = [wsData EXCEPT ![c] = <<>>]
    /\ UNCHANGED <<listener, device_data, subscriptions, wsDev, wsExit, cleanups, sent, hVars>>

\* line 95 raises: the exception leaves the coroutine
CloseFails(c) ==
    /\ wsPc[c] = "closing"
    /\ wsPc' = [wsPc EXCEPT ![c] = "done"]
    /\ wsData' = [wsData EXCEPT ![c] = <<>>]
    /\ wsExit' = [wsExit EXCEPT ![c] = "error"]
    /\ UNCHANGED <<listener, device_data, subscriptions, wsDev, cleanups, sent, hVars>>

\* ------------------------------------------- handle_device_data_update
\* the callback returns, or is left by the exception err: its locals are gone
Return(t, err) ==
    /\ hPc' = [hPc EXCEPT ![t] = "done"]
    /\ hErr' = [hErr EXCEPT ![t] = err]
    /\ hDev' = [hDev EXCEPT ![t] = NoDevice]
    /\ hData' = [hData EXCEPT ![t] = <<>>]
    /\ hIdx' = [hIdx EXCEPT ![t] = 0]
    /\ hCur' = [hCur EXCEPT ![t] = NoConn]
    /\ hOrphan' = [hOrphan EXCEPT ![t] = FALSE]
    /\ hAtStart' = [hAtStart EXCEPT ![t] = <<>>]

\* lines 101-103: the notification arrives on the listening connection;
\* membership test; suspend in the query.
\* Invocations are numbered in the order the notifications arrive.
Notify(t, d) ==
    /\ listener = "listening"
    /\ hPc[t] = "idle"
    /\ \A u \in Tasks : u < t => hPc[u] # "idle"
    /\ Events < MaxEvents
    /\ IF d \in DOMAIN subscriptions
       THEN /\ hPc' = [hPc EXCEPT ![t] = "query"]
            /\ hDev' = [hDev EXCEPT ![t] = d]
            /\ UNCHANGED <<hData, hIdx, hCur, hOrphan, hErr, hAtStart>>
       ELSE Return(t, "none")
    /\ UNCHANGED <<listener, device_data, subscriptions, wsVars, sent>>

\* line 103: the database evaluates the latest-reading query; lines 106-109
FetchLatest(t) ==
    /\ hPc[t] = "query"
    /\ \E rows \in fetch_latest_device_data(hDev[t], device_data) :
            hData' = [hData EXCEPT ![t] = ToWire(rows)]
    /\ hPc' = [hPc EXCEPT ![t] = "resume"]
    /\ UNCHANGED <<listener, device_data, subscriptions, wsVars, sent,
                   hDev, hIdx, hCur, hOrphan, hErr, hAtStart>>

\* line 103 raises (the store query fails)
FetchLatestFails(t) ==
    /\ hPc[t] = "query"
    /\ Return(t, "StoreError")
    /\ UNCHANGED <<listener, device_data, subscriptions, wsVars, sent>>

\* line 112, one step of the list iterator over `list` from index i, then
\* line 113 up to its await; the callback returns when the iterator is exhausted
Advance(t, list, i) ==
    IF i < Len(list)
    THEN /\ hPc' = [hPc EXCEPT ![t] = "sending"]
         /\ hCur' = [hCur EXCEPT ![t] = list[i + 1]]
         /\ hIdx' = [hIdx EXCEPT ![t] = i + 1]
         /\ hAtStart' = [hAtStart EXCEPT ![t] = IF i = 0 THEN list ELSE @]
         /\ UNCHANGED <<hDev, hData, hOrphan, hErr>>
    ELSE Return(t, "none")

\* the coroutine resumes after the query: line 112 looks the list up and
\* starts iterating it
Resume(t) ==
    /\ hPc[t] = "resume"
    /\ IF hDev[t] \in DOMAIN subscriptions
       THEN Advance(t, subscriptions[hDev[t]], 0)
       ELSE Return(t, "KeyError")
    /\ UNCHANGED <<listener, device_data, subscriptions, wsVars, sent>>

\* line 113: the message is put on the wire; the loop takes its next step
SendDone(t) ==
    /\ hPc[t] = "sending"
    /\ sent' = [sent EXCEPT ![hCur[t]] =
            Append(@, [by |-> t, msg |-> Message(hDev[t], hData[t])])]
    /\ Advance(t, IterList(t), hIdx[t])
    /\ UNCHANGED <<listener, device_data, subscriptions, wsVars>>

\* line 113 raises: nothing catches it, the callback ends
SendFails(t) ==
    /\ hPc[t] = "sending"
    /\ Return(t, "SendError")
    /\ UNCHANGED <<listener, device_data, subscriptions, wsVars, sent>>

\* -------------------------------------------------------------------- Next
Raised == {"disconnect", "wsexception", "error"}

Next ==
    \/ \E d \in Devices, ts \in Times : Insert(d, ts)
    \/ \E c \in Conns, d \in Devices : Connect(c, d)
    \/ \E c \in Conns : FetchSnapshot(c)
    \/ \E c \in Conns : FetchFails(c)
    \/ \E c \in Conns : SendSnapshot(c)
    \/ \E c \in Conns, how \in Raised : SendSnapshotFails(c, how)
    \/ \E c \in Conns : ReceiveText(c)
    \/ \E c \in Conns, how \in Raised : ReceiveFails(c, how)
    \/ \E c \in Conns : CloseDone(c)
    \/ \E c \in Conns : CloseFails(c)
    \/ \E t \in Tasks, d \in Devices : Notify(t, d)
    \/ \E t \in Tasks : FetchLatest(t)
    \/ \E t \in Tasks : FetchLatestFails(t)
    \/ \E t \in Tasks : Resume(t)
    \/ \E t \in Tasks : SendDone(t)
    \/ \E t \in Tasks : SendFails(t)
    \/ ListenerStarts
    \/ ListenerFails
    \/ ListenerBreaks

Spec == Init /\ [][Next]_vars

\* ------------------------------------------------------- sequential runs
\* no coroutine is between two of its awaits: every handler is idle, in the
\* receive loop or over, every invocation is idle or over
Quiescent ==
    /\ \A c \in Conns : wsPc[c] \in {"idle", "receive", "done"}
    /\ \A t \in Tasks : hPc[t] \in {"idle", "done"}

\* runs in which an operation (insert, connect, notification, disconnect)
\* begins only when the one before is over, and no query or send raises
SeqNext ==
    \/ Quiescent /\ \E d \in Devices, ts \in Times : Insert(d, ts)
    \/ Quiescent /\ \E c \in Conns, d \in Devices : Connect(c, d)
    \/ Quiescent /\ \E t \in Tasks, d \in Devices : Notify(t, d)
    \/ Quiescent /\ \E c \in Conns : ReceiveFails(c, "disconnect")
    \/ \E c \in Conns : FetchSnapshot(c)
    \/ \E c \in Conns : SendSnapshot(c)
    \/ \E t \in Tasks : FetchLatest(t)
    \/ \E t \in Tasks : Resume(t)
    \/ \E t \in Tasks : SendDone(t)
    \/ ListenerStarts

SeqSpec == Init /\ [][SeqNext]_vars

\* ------------------------------------------------------------ large table
\* a table of one row less than the snapshot limit, all of device d1, the
\* row inserted first being the newest
BulkRows == SnapshotLimit - 1

BulkTable ==
    [i \in 1..BulkRows |->
        [id |-> i, device_id |-> "d1", recorded_at |-> SnapshotLimit + 1 - i]]

\* recorded_at of the rows posted to it: older than every row of the table,
\* equal to its oldest, newer than all
BulkTimes ==
    {BulkTable[BulkRows].recorded_at - 1,
     BulkTable[BulkRows].recorded_at,
     BulkTable[1].recorded_at + 1}

BulkInit ==
    /\ device_data = BulkTable
    /\ Startup

BulkInsert(d, ts) ==
    /\ Len(device_data) < BulkRows + BulkExtra
    /\ Commit(d, ts)

\* clients connect and get their snapshot while rows are posted
BulkNext ==
    \/ \E d \in Devices, ts \in BulkTimes : BulkInsert(d, ts)
    \/ \E c \in Conns, d \in Devices : Accept(c, d)
    \/ \E c \in Conns : FetchSnapshot(c)
    \/ \E c \in Conns : SendSnapshot(c)

BulkSpec == BulkInit /\ [][BulkNext]_vars

\* ------------------------------------------------------------- scheduling
\* the event loop runs the add_listener task and resumes every coroutine
\* whose await is over: a query that the database answered, a send or a close
\* the peer took.  Nothing obliges the
\* environment to insert, connect, notify, disconnect or fail.
FairSpec ==
    /\ Spec
    /\ WF_vars(ListenerStarts)
    /\ \A c \in Conns :
            WF_vars(FetchSnapshot(c)) /\ WF_vars(SendSnapshot(c)) /\ WF_vars(CloseDone(c))
    /\ \A t \in Tasks : WF_vars(FetchLatest(t)) /\ WF_vars(Resume(t)) /\ WF_vars(SendDone(t))

\* the connection whose peer has stopped reading: a send to it stays
\* suspended in line 113 for as long as the peer likes
StalledPeer == 1

\* as FairSpec, but for the sends of line 113 to the stalled peer
StallSpec ==
    /\ Spec
    /\ WF_vars(ListenerStarts)
    /\ \A c \in Conns :
            WF_vars(FetchSnapshot(c)) /\ WF_vars(SendSnapshot(c)) /\ WF_vars(CloseDone(c))
    /\ \A t \in Tasks :
            /\ WF_vars(FetchLatest(t))
            /\ WF_vars(Resume(t))
            /\ WF_vars(SendDone(t) /\ hCur[t] # StalledPeer)

\* ------------------------------------------------------ claim vocabulary
\* c is in the list of some device
Registered(c) == \E d \in DOMAIN subscriptions : c \in Range(subscriptions[d])

\* the list of device d, empty when d is no key
ListOf(d) == IF d \in DOMAIN subscriptions THEN subscriptions[d] ELSE <<>>

IsSnapshot(m) == m.by = Endpoint
IsLive(m) == m.by # Endpoint

\* the recorded timestamps a message carries (read back from their text form)
Stamps(m) == {m.msg.data[i].recorded_at.iso : i \in DOMAIN m.msg.data}

\* invocation t has put a message on the wire of c
SentBy(t, c) == \E i \in DOMAIN sent[c] : sent[c][i].by = t

\* this step starts a send of invocation t (line 113 is entered)
StartsSend(t) ==
    /\ hPc'[t] = "sending"
    /\ hPc[t] # "sending" \/ hIdx'[t] # hIdx[t]

\* this step ends the for loop of invocation t without any exception
EndsFanout(t) ==
    /\ hPc[t] = "sending"
    /\ hPc'[t] = "done"
    /\ hErr'[t] = "none"

\* ------------------------------------------------------------------ C1
\* C1: the first message put on the wire of a connection is its snapshot;
\* no live update of handle_device_data_update precedes it.
C1_SnapshotFirst ==
    \A c \in Conns : sent[c] # <<>> => IsSnapshot(sent[c][1])

\* ------------------------------------------------------------------ C2
\* C2: when the send to one subscriber fails during a fan-out, every other
\* connection registered for the device at that time has been sent the
\* reading by this invocation once the fan-out is over (the failing step
\* ends it, with the exception leaving the callback).
C2_FailureIsolated ==
    [][\A t \in Tasks : SendFails(t) =>
            \A b \in Range(ListOf(hDev[t])) \ {hCur[t]} : SentBy(t, b)']_vars

\* ------------------------------------------------------------------ C3
\* C3: handle_device_data_update never fails on its own registry access: it
\* completes without a KeyError when every subscriber of the device has
\* disconnected (and the entry is deleted) while it was suspended in the
\* store query.  (The callback takes no lock, so it cannot deadlock.)
C3_NoErrorAfterQuery ==
    \A t \in Tasks : hErr[t] # "KeyError"

\* ------------------------------------------------------------------ C4
\* C4: whatever ends the handler of a registered connection, lines 90-92 have
\* run exactly once for it, and the connection is in no list of the registry.
C4_CleanupExactlyOnce ==
    \A c \in Conns : wsPc[c] = "done" => cleanups[c] = 1 /\ ~Registered(c)

\* ------------------------------------------------------------------ C5
\* C5: a connection whose send failed during a fan-out is no longer
\* registered when that fan-out has ended.
C5_FailedSubscriberUnregistered ==
    [][\A t \in Tasks, a \in Conns :
            (SendFails(t) /\ a = hCur[t]) => ~Registered(a)']_vars

\* ------------------------------------------------------------------ C6
\* C6: no invocation starts a send to a connection whose cleanup (lines
\* 90-92) has completed.
C6_NoSendAfterUnregister ==
    [][\A t \in Tasks : StartsSend(t) => cleanups[hCur'[t]] = 0]_vars

\* an invocation is in the middle of a fan-out over a list that held c when
\* the loop started, c has been unregistered since, and the invocation is
\* sending to another connection
C6_Witness ==
    \E t \in Tasks, c \in Conns :
        /\ hPc[t] = "sending"
        /\ c \in Range(hAtStart[t])
        /\ cleanups[c] = 1
        /\ hCur[t] # c

\* ------------------------------------------------------------------ C7
\* C7: when a fan-out ends without a failed send, every connection that was
\* in the list when the loop started and is still in it has been sent the
\* reading by this invocation.
C7_FanoutReachesAll ==
    [][\A t \in Tasks : EndsFanout(t) =>
            \A b \in Range(hAtStart[t]) \cap Range(ListOf(hDev[t])) :
                SentBy(t, b)']_vars

\* ------------------------------------------------------------------ C8
\* C8: the live updates put on the wire of a connection carry non-decreasing
\* recorded timestamps.
C8_LiveUpdatesOrdered ==
    \A c \in Conns : \A i, j \in DOMAIN sent[c] :
        (i < j /\ IsLive(sent[c][i]) /\ IsLive(sent[c][j])) =>
            \A a \in Stamps(sent[c][i]), b \in Stamps(sent[c][j]) : a <= b

\* ------------------------------------------------------------------ C9
\* C9: a live update that follows the snapshot of a connection carries a
\* timestamp not older than any timestamp in that snapshot.
C9_LiveNotOlderThanSnapshot ==
    \A c \in Conns : \A i, j \in DOMAIN sent[c] :
        (i < j /\ IsSnapshot(sent[c][i]) /\ IsLive(sent[c][j])) =>
            \A a \in Stamps(sent[c][i]), b \in Stamps(sent[c][j]) : a <= b

\* ----------------------------------------------------------------- C10
\* C10: a device is a key of the registry exactly while its list holds a
\* connection: no key maps to an empty list, and every connection that has
\* been registered and not yet unregistered is in the list of its device.
C10_NoEmptyEntry ==
    /\ \A d \in DOMAIN subscriptions : subscriptions[d] # <<>>
    /\ \A c \in Conns :
            (wsPc[c] # "idle" /\ cleanups[c] = 0) =>
                c \in Range(ListOf(wsDev[c]))

\* the last connection of a device has been unregistered and its entry is
\* gone, while the entry of another device is still there
C10_Witness ==
    \E c \in Conns :
        /\ cleanups[c] = 1
        /\ wsDev[c] \notin DOMAIN subscriptions
        /\ DOMAIN subscriptions # {}

\* ----------------------------------------------------------------- C13
\* C13: a notification for a device without registered connection goes on to
\* the store query, sends nothing and raises nothing.
C13_QueriesWithoutSubscribers ==
    [][\A t \in Tasks, d \in Devices :
            (Notify(t, d) /\ d \notin DOMAIN subscriptions) =>
                (hPc'[t] = "query" /\ hErr'[t] = "none" /\ sent' = sent)]_vars

\* ----------------------------------------------------------------- C14
\* C14: an invocation that finds no reading of its device sends nothing: no
\* live update carries an empty data list.
C14_NoReadingNoMessage ==
    \A c \in Conns : \A i \in DOMAIN sent[c] :
        IsLive(sent[c][i]) => sent[c][i].msg.data # <<>>

\* ----------------------------------------------------------------- C15
\* C15: one invocation puts at most one message on the wire of a connection.
C15_AtMostOncePerInvocation ==
    \A c \in Conns, t \in Tasks :
        Cardinality({i \in DOMAIN sent[c] : sent[c][i].by = t}) <= 1

\* an invocation has sent to a connection and is still in its loop, over a
\* list that is no longer the one it started with
C15_Witness ==
    \E t \in Tasks, c \in Conns :
        /\ SentBy(t, c)
        /\ hPc[t] = "sending"
        /\ hAtStart[t] # ListOf(hDev[t])

\* ----------------------------------------------------------------- C17
\* the places (device, index) at which c occurs in the registry
Occurrences(c) ==
    {p \in UNION {{<<d, i>> : i \in DOMAIN subscriptions[d]} : d \in DOMAIN subscriptions} :
        subscriptions[p[1]][p[2]] = c}

\* C17: a connection occurs at most once in the whole registry.
C17_OneOccurrence ==
    \A c \in Conns : Cardinality(Occurrences(c)) <= 1

\* one connection has been unregistered while another is still registered
\* for the same device
C17_Witness ==
    \E b, c \in Conns :
        /\ cleanups[b] = 1
        /\ Registered(c)
        /\ wsDev[b] = wsDev[c]

\* ----------------------------------------------------------------- C18
\* a row of a message, with its timestamp read back from its text form
Unwire(row) == [row EXCEPT !.recorded_at = @.iso]

\* w is a window of the k newest rows of S, newest first
IsTopWindow(w, S, k) ==
    LET rows == {Unwire(w[i]) : i \in DOMAIN w}
    IN  /\ Len(w) = IF Cardinality(S) < k THEN Cardinality(S) ELSE k
        /\ Cardinality(rows) = Len(w)
        /\ rows \subseteq S
        /\ \A i \in 1..(Len(w) - 1) : w[i].recorded_at.iso >= w[i + 1].recorded_at.iso
        /\ \A r \in S \ rows : \A q \in rows : r.recorded_at <= q.recorded_at

\* C18: the snapshot query of a connection to d yields the readings of d
\* with the greatest timestamps in the table at that time, at most
\* SnapshotLimit of them, newest first and none of another device (the empty
\* list when d has none), and that is what the snapshot message carries.
C18_SnapshotIsNewestWindow ==
    [][\A c \in Conns :
            /\ FetchSnapshot(c) =>
                    IsTopWindow(wsData'[c], RowsOf(wsDev[c], device_data), SnapshotLimit)
            /\ SendSnapshot(c) =>
                    sent'[c][Len(sent'[c])] =
                        [by |-> Endpoint, msg |-> Message(wsDev[c], wsData[c])]]_vars

\* a snapshot of SnapshotLimit readings has been sent that was fetched when
\* the table held more readings of the device than that (it holds the row
\* inserted last)
C18_Witness ==
    \E c \in Conns : \E i \in DOMAIN sent[c] :
        /\ IsSnapshot(sent[c][i])
        /\ Len(sent[c][i].msg.data) = SnapshotLimit
        /\ Cardinality(RowsOf(wsDev[c], device_data)) > SnapshotLimit
        /\ \E k \in DOMAIN sent[c][i].msg.data :
                sent[c][i].msg.data[k].id = Len(device_data)

\* ----------------------------------------------------------------- C19
\* C19: every message on the wire of a connection, and every reading in it,
\* carries the device the connection connected with, and no step of an
\* invocation changes the registry.
C19_OnlyOwnDevice ==
    [][/\ \A c \in Conns : \A i \in DOMAIN sent'[c] :
            /\ sent'[c][i].msg.device_id = wsDev'[c]
            /\ \A k \in DOMAIN sent'[c][i].msg.data :
                    sent'[c][i].msg.data[k].device_id = wsDev'[c]
       /\ subscriptions' # subscriptions => (hPc' = hPc /\ hIdx' = hIdx)]_vars

\* an invocation has sent to a connection of its device while a connection
\* of another device is registered and got nothing from it
C19_Witness ==
    \E t \in Tasks, b, c \in Conns :
        /\ SentBy(t, c)
        /\ Registered(b)
        /\ wsDev[b] # wsDev[c]
        /\ ~SentBy(t, b)

\* ----------------------------------------------------------------- C20
\* C20: the cleanup of lines 90-92 never fails: the device is a key and the
\* connection is in its list whenever it runs.
C20_CleanupNeverFails ==
    \A c \in Conns : wsExit[c] \notin {"KeyError", "ValueError"}

\* both connections of one device have run their cleanup, and an invocation
\* for that device was caught by it
C20_Witness ==
    /\ \A c \in Conns : cleanups[c] = 1
    /\ wsDev[1] = wsDev[2]
    /\ \E t \in Tasks : hErr[t] = "KeyError"

\* ----------------------------------------------------------------- C16
\* the messages invocation t has put on the wire of c
FromTask(t, c) == {i \in DOMAIN sent[c] : sent[c][i].by = t}

\* C16: in a sequential run with no failure, an invocation for a device d
\* with subscribers starts its fan-out, and when the fan-out ends with d
\* holding a reading, every connection registered for d has got exactly one
\* message from it, the same for all: d and one reading of d of the greatest
\* recorded_at in the table; no invocation ends in an error.
C16_SequentialDelivery ==
    [][\A t \in Tasks, d \in Devices :
            /\ hErr'[t] = "none"
            /\ (Resume(t) /\ d = hDev[t]) => hPc'[t] = "sending"
            /\ (EndsFanout(t) /\ d = hDev[t] /\ RowsOf(d, device_data) # {}) =>
                    \E r \in RowsOf(d, device_data) :
                        /\ \A q \in RowsOf(d, device_data) : q.recorded_at <= r.recorded_at
                        /\ \A b \in Range(ListOf(d)) :
                            /\ Cardinality(FromTask(t, b)') = 1
                            /\ \A i \in FromTask(t, b)' :
                                /\ sent'[b][i].msg.device_id = d
                                /\ Len(sent'[b][i].msg.data) = 1
                                /\ Unwire(sent'[b][i].msg.data[1]) = r]_vars

\* two connections of one device each hold the message of one invocation,
\* with a reading in it, and the table holds an older reading of the device
C16_Witness ==
    \E t \in Tasks :
        /\ \A c \in Conns : \E i \in DOMAIN sent[c] :
                /\ sent[c][i].by = t
                /\ sent[c][i].msg.data # <<>>
                /\ \E r \in RowsOf(wsDev[c], device_data) :
                        r.recorded_at < sent[c][i].msg.data[1].recorded_at.iso
        /\ wsDev[1] = wsDev[2]

\* ----------------------------------------------------------------- C11
\* C11: once the listening connection has broken, listening is eventually
\* re-established (so that later inserts are dispatched again).
C11_ListenerReestablished ==
    (listener = "broken") ~> (listener = "listening")

\* ----------------------------------------------------------------- C12
\* C12: whenever invocation 1 is suspended in a send to the stalled peer
\* while connection 2 is registered for the device (both handlers in their
\* receive loop), eventually connection 2 has been sent the reading by
\* invocation 1, or has been unregistered, or the send to the stalled peer
\* is over.
C12_StalledDoesNotDelay ==
    (/\ hPc[1] = "sending"
     /\ hCur[1] = StalledPeer
     /\ 2 \in Range(ListOf(hDev[1]))
     /\ \A c \in Conns : wsPc[c] = "receive")
        ~> (\/ SentBy(1, 2)
            \/ ~Registered(2)
            \/ ~(hPc[1] = "sending" /\ hCur[1] = StalledPeer))

====
